---- MODULE Spec2Model ----
(***************************************************************************)
(* Model of app.py: a JSON-file-backed comment board with two endpoints,   *)
(* GET /api/comments and POST /api/add_comment, and the three store        *)
(* functions ensure_comments_file, load_comments and save_comments.        *)
(*                                                                         *)
(* Python/JSON values are tagged records.  The persisted file is a         *)
(* sequence of JSON tokens (the whitespace that indent=2 adds carries no   *)
(* meaning and no token); json.dump and json.load are the serializer Dump  *)
(* and the recursive-descent parser Loads over those tokens.  Each request *)
(* is a small process whose steps are the handler's file operations, so    *)
(* that requests can be run one at a time (Spec, SpecAlias), with failing  *)
(* file operations (SpecIO) or interleaved (SpecConc).                     *)
(***************************************************************************)
EXTENDS Integers, Sequences, FiniteSets, TLC

VARIABLES
    file,    \* the file at COMMENTS_FILE
    reqs,    \* the requests: where each handler is, its locals, its response
    start    \* the file as it was before the first request (never changes)

vars == <<file, reqs, start>>

\* ------------------------------------------------------------------ bounds
\* Requests served in one behaviour.
MaxRequests == 2
\* Comments in the document the file holds at the start.
MaxStored == 2

\* ------------------------------------------------------- Python/JSON values
\* Python None: JSON null, a missing dict key, and get_json(silent=True) failing.
None == [t |-> "none"]
Bool(b) == [t |-> "bool", b |-> b]
Num(n) == [t |-> "num", n |-> n]
Str(s) == [t |-> "str", s |-> s]
List(xs) == [t |-> "list", items |-> xs]
\* A dict: its items in insertion order, each [k |-> key, v |-> value].
Dict(ps) == [t |-> "dict", items |-> ps]
KV(k, v) == [k |-> k, v |-> v]

IsDict(v) == v.t = "dict"
IsList(v) == v.t = "list"
IsStr(v) == v.t = "str"

\* Python truth value, as `not x` and `x or y` test it.
Truthy(v) ==
    CASE v.t = "none" -> FALSE
      [] v.t = "bool" -> v.b
      [] v.t = "num" -> v.n # 0
      [] v.t = "str" -> v.s # ""
      [] v.t = "list" -> Len(v.items) > 0
      [] v.t = "dict" -> Len(v.items) > 0

\* x or y
PyOr(x, y) == IF Truthy(x) THEN x ELSE y

\* key in d
HasKey(d, k) == \E i \in 1..Len(d.items) : d.items[i].k = k

\* d.get(k): None when the key is missing.
Get(d, k) ==
    IF HasKey(d, k)
    THEN d.items[CHOOSE i \in 1..Len(d.items) : d.items[i].k = k].v
    ELSE None

\* dict construction from parsed pairs: a repeated key keeps its first place
\* and takes the last value.
DictSet(ps, k, v) ==
    IF \E i \in 1..Len(ps) : ps[i].k = k
    THEN [ps EXCEPT ![CHOOSE i \in 1..Len(ps) : ps[i].k = k] = KV(k, v)]
    ELSE Append(ps, KV(k, v))

\* ------------------------------------------------------------- JSON text
Tok(k) == [k |-> k, s |-> "", n |-> 0]
StrTok(s) == [k |-> "str", s |-> s, n |-> 0]
NumTok(n) == [k |-> "num", s |-> "", n |-> n]

RECURSIVE Dump(_)
RECURSIVE DumpItems(_)
RECURSIVE DumpMembers(_)

\* json.dump(v, f, indent=2): the tokens written.
Dump(v) ==
    CASE v.t = "none" -> <<Tok("null")>>
      [] v.t = "bool" -> <<Tok(IF v.b THEN "true" ELSE "false")>>
      [] v.t = "num" -> <<NumTok(v.n)>>
      [] v.t = "str" -> <<StrTok(v.s)>>
      [] v.t = "list" -> <<Tok("[")>> \o DumpItems(v.items) \o <<Tok("]")>>
      [] v.t = "dict" -> <<Tok("{")>> \o DumpMembers(v.items) \o <<Tok("}")>>

\* Mutant of DumpItems: the item separator is left out.
DumpItemsMutant(xs) ==
    IF Len(xs) = 0 THEN <<>>
    ELSE IF Len(xs) = 1 THEN Dump(xs[1])
    ELSE Dump(xs[1]) \o DumpItems(Tail(xs))

DumpItems(xs) ==
    IF Len(xs) = 0 THEN <<>>
    ELSE IF Len(xs) = 1 THEN Dump(xs[1])
    ELSE Dump(xs[1]) \o <<Tok(",")>> \o DumpItems(Tail(xs))

DumpMembers(ps) ==
    IF Len(ps) = 0 THEN <<>>
    ELSE IF Len(ps) = 1 THEN <<StrTok(ps[1].k), Tok(":")>> \o Dump(ps[1].v)
    ELSE <<StrTok(ps[1].k), Tok(":")>> \o Dump(ps[1].v) \o <<Tok(",")>>
             \o DumpMembers(Tail(ps))

ParseFail == [ok |-> FALSE, v |-> None, next |-> 0]
Parsed(v, next) == [ok |-> TRUE, v |-> v, next |-> next]

RECURSIVE ParseValue(_, _)
RECURSIVE ParseElems(_, _, _)
RECURSIVE ParseMembers(_, _, _)

\* The JSON value that starts at token i, and the place after it.
ParseValue(toks, i) ==
    IF i > Len(toks) THEN ParseFail
    ELSE LET tk == toks[i] IN
         CASE tk.k = "null" -> Parsed(None, i + 1)
           [] tk.k = "true" -> Parsed(Bool(TRUE), i + 1)
           [] tk.k = "false" -> Parsed(Bool(FALSE), i + 1)
           [] tk.k = "num" -> Parsed(Num(tk.n), i + 1)
           [] tk.k = "str" -> Parsed(Str(tk.s), i + 1)
           [] tk.k = "[" ->
                IF i + 1 <= Len(toks) /\ toks[i + 1].k = "]"
                THEN Parsed(List(<<>>), i + 2)
                ELSE ParseElems(toks, i + 1, <<>>)
           [] tk.k = "{" ->
                IF i + 1 <= Len(toks) /\ toks[i + 1].k = "}"
                THEN Parsed(Dict(<<>>), i + 2)
                ELSE ParseMembers(toks, i + 1, <<>>)
           [] OTHER -> ParseFail

\* value ("," value)* "]"
ParseElems(toks, i, acc) ==
    LET r == ParseValue(toks, i) IN
    IF ~r.ok \/ r.next > Len(toks) THEN ParseFail
    ELSE IF toks[r.next].k = "," THEN ParseElems(toks, r.next + 1, Append(acc, r.v))
    ELSE IF toks[r.next].k = "]" THEN Parsed(List(Append(acc, r.v)), r.next + 1)
    ELSE ParseFail

\* string ":" value ("," string ":" value)* "}"
ParseMembers(toks, i, acc) ==
    IF i + 1 > Len(toks) \/ toks[i].k # "str" \/ toks[i + 1].k # ":" THEN ParseFail
    ELSE LET r == ParseValue(toks, i + 2) IN
         IF ~r.ok \/ r.next > Len(toks) THEN ParseFail
         ELSE IF toks[r.next].k = ","
              THEN ParseMembers(toks, r.next + 1, DictSet(acc, toks[i].s, r.v))
         ELSE IF toks[r.next].k = "}"
              THEN Parsed(Dict(DictSet(acc, toks[i].s, r.v)), r.next + 1)
         ELSE ParseFail

\* json.load(f): ok is FALSE where it raises JSONDecodeError (no value, a
\* truncated value, or data after the value).
Loads(text) ==
    LET r == ParseValue(text, 1) IN
    IF r.ok /\ r.next = Len(text) + 1
    THEN [ok |-> TRUE, v |-> r.v]
    ELSE [ok |-> FALSE, v |-> None]

\* ------------------------------------------------------------ the store
\* The file at COMMENTS_FILE: whether it exists, and the tokens it holds.
AbsentFile == [exists |-> FALSE, text |-> <<>>]
FileOf(text) == [exists |-> TRUE, text |-> text]

\* Mutant of EmptyDoc: an empty mapping, {}.
EmptyDocMutant == Dict(<<>>)

\* {"comments": []}
EmptyDoc == Dict(<<KV("comments", List(<<>>))>>)

\* open(COMMENTS_FILE, "w"): the file is created or truncated; the handle
\* starts at offset 0.
OpenForWrite(f) == FileOf(<<>>)

\* The handle's buffered text reaches the file in one write at offset 0, when
\* the with-block closes it: it replaces what is there from the start and
\* leaves what lies beyond it (another handle may have written meanwhile).
WriteAt0(f, text) ==
    FileOf(text \o SubSeq(f.text, Len(text) + 1, Len(f.text)))

\* load_comments: the structure guarantee applied to the parsed value.
Guarantee(data) ==
    IF ~IsDict(data) \/ ~HasKey(data, "comments") THEN EmptyDoc ELSE data

\* Mutant of AppendComment: the new comment goes first (insert(0, ...)).
AppendCommentMutant(data, new_comment) ==
    LET i == CHOOSE j \in 1..Len(data.items) : data.items[j].k = "comments" IN
    Dict([data.items EXCEPT
            ![i] = KV("comments", List(<<new_comment>> \o data.items[i].v.items))])

\* data["comments"].append(new_comment), for data whose "comments" is a list.
AppendComment(data, new_comment) ==
    LET i == CHOOSE j \in 1..Len(data.items) : data.items[j].k = "comments" IN
    Dict([data.items EXCEPT
            ![i] = KV("comments", List(Append(data.items[i].v.items, new_comment)))])

\* ------------------------------------------------------------ the API layer
\* request.get_json(force=True, silent=True): None when the body does not parse.
GetJson(body) == LET r == Loads(body) IN IF r.ok THEN r.v ELSE None

\* Mutant of ResolveName: the first key present decides, whatever it holds
\* ("name" in payload rather than a truthy payload.get("name")).
ResolveNameMutant(payload) ==
    IF HasKey(payload, "name") THEN Get(payload, "name")
    ELSE IF HasKey(payload, "username") THEN Get(payload, "username")
    ELSE Get(payload, "author")

\* payload.get("name") or payload.get("username") or payload.get("author")
ResolveName(payload) ==
    PyOr(PyOr(Get(payload, "name"), Get(payload, "username")), Get(payload, "author"))

\* payload.get("comment") or payload.get("text") or payload.get("body")
ResolveText(payload) ==
    PyOr(PyOr(Get(payload, "comment"), Get(payload, "text")), Get(payload, "body"))

\* {"name": name, "comment": comment_text}
NewComment(name, comment_text) == Dict(<<KV("name", name), KV("comment", comment_text)>>)

ErrorBody(msg) == Dict(<<KV("error", Str(msg))>>)
DetailBody(msg, detail) == Dict(<<KV("error", Str(msg)), KV("detail", Str(detail))>>)
SuccessBody(new_comment) ==
    Dict(<<KV("status", Str("success")), KV("comment", new_comment)>>)

\* The error payload of the handler's `except Exception as e` branch.
ServerError(op, detail) ==
    IF op = "get" THEN DetailBody("Failed to load comments", detail)
    ELSE DetailBody("Server error", detail)

\* ------------------------------------------------------------ requests
Reqs == 1..MaxRequests

IdleReq ==
    [pc |-> "idle", op |-> "", payload |-> None, name |-> None,
     comment_text |-> None, loaded |-> None, data |-> None,
     status |-> 0, body |-> None, before |-> AbsentFile, ioerr |-> FALSE]

\* The sequential case: request r arrives when the ones before it have been
\* answered and none after it has arrived.
Turn(r) ==
    /\ reqs[r].pc = "idle"
    /\ \A q \in Reqs : q < r => reqs[q].pc = "done"
    /\ \A q \in Reqs : q > r => reqs[q].pc = "idle"

Goto(r, pc) == reqs' = [reqs EXCEPT ![r].pc = pc] /\ UNCHANGED start

Respond(r, status, body) ==
    /\ reqs' = [reqs EXCEPT ![r].pc = "done", ![r].status = status, ![r].body = body]
    /\ UNCHANGED start

\* The exception reaches the handler's except branch: 500 with str(e).
Raise(r, detail) == Respond(r, 500, ServerError(reqs[r].op, detail))

\* api_get_comments is entered.
BeginList(r) ==
    /\ reqs' = [reqs EXCEPT ![r] = [IdleReq EXCEPT !.pc = "ensure_exists",
                                     !.op = "get", !.before = file]]
    /\ UNCHANGED <<file, start>>

\* api_add_comment up to the store: parse the body, validate, resolve.
BeginAdd(r, body) ==
    LET payload == GetJson(body)
        rq == [IdleReq EXCEPT !.op = "add", !.payload = payload, !.before = file]
        done(status, b) == [rq EXCEPT !.pc = "done", !.status = status, !.body = b]
    IN
    /\ reqs' = [reqs EXCEPT ![r] =
         IF ~Truthy(payload)
         THEN done(400, ErrorBody("Missing or invalid JSON body"))
         ELSE IF ~IsDict(payload)
         THEN done(500, ServerError("add", "AttributeError"))
         ELSE LET name == ResolveName(payload)
                  comment_text == ResolveText(payload)
              IN IF ~Truthy(name) \/ ~Truthy(comment_text)
                 THEN done(400, ErrorBody("JSON must include 'name' and 'comment' fields"))
                 ELSE [rq EXCEPT !.pc = "ensure_exists", !.name = name,
                                 !.comment_text = comment_text]]
    /\ UNCHANGED <<file, start>>

\* ensure_comments_file: os.path.exists(COMMENTS_FILE)
EnsureExists(r) ==
    /\ reqs[r].pc = "ensure_exists"
    /\ Goto(r, IF file.exists THEN "ensure_read" ELSE "ensure_create")
    /\ UNCHANGED file

\* ensure_comments_file, file missing: open(COMMENTS_FILE, "w")
EnsureCreateOpen(r) ==
    /\ reqs[r].pc = "ensure_create"
    /\ file' = OpenForWrite(file)
    /\ Goto(r, "ensure_create_write")

\* ensure_comments_file, file missing: json.dump({"comments": []}, f); return
EnsureCreateWrite(r) ==
    /\ reqs[r].pc = "ensure_create_write"
    /\ file' = WriteAt0(file, Dump(EmptyDoc))
    /\ Goto(r, "load_read")

\* ensure_comments_file, file present: open, json.load; JSONDecodeError and
\* OSError (the file vanished) lead to the reset.
EnsureRead(r) ==
    /\ reqs[r].pc = "ensure_read"
    /\ Goto(r, IF file.exists /\ Loads(file.text).ok THEN "load_read" ELSE "ensure_reset")
    /\ UNCHANGED file

\* ensure_comments_file, except branch: open(COMMENTS_FILE, "w")
EnsureResetOpen(r) ==
    /\ reqs[r].pc = "ensure_reset"
    /\ file' = OpenForWrite(file)
    /\ Goto(r, "ensure_reset_write")

\* ensure_comments_file, except branch: json.dump({"comments": []}, f)
EnsureResetWrite(r) ==
    /\ reqs[r].pc = "ensure_reset_write"
    /\ file' = WriteAt0(file, Dump(EmptyDoc))
    /\ Goto(r, "load_read")

\* load_comments after ensure: open, json.load, guarantee structure, return;
\* then the caller's use of the value up to its next file operation:
\* jsonify(data), 200 in api_get_comments; the append in api_add_comment.
LoadRead(r) ==
    /\ reqs[r].pc = "load_read"
    /\ LET rq == reqs[r]
           parsed == Loads(file.text)
           data == Guarantee(parsed.v)
           new_comment == NewComment(rq.name, rq.comment_text)
       IN
       IF ~file.exists THEN Raise(r, "FileNotFoundError")
       ELSE IF ~parsed.ok THEN Raise(r, "JSONDecodeError")
       ELSE IF rq.op = "get"
       THEN reqs' = [reqs EXCEPT ![r].pc = "done", ![r].loaded = data,
                                 ![r].status = 200, ![r].body = data]
       ELSE IF ~IsList(Get(data, "comments"))
       THEN reqs' = [reqs EXCEPT ![r].pc = "done", ![r].loaded = data,
                                 ![r].status = 500,
                                 ![r].body = ServerError("add", "AttributeError")]
       ELSE reqs' = [reqs EXCEPT ![r].pc = "save_open", ![r].loaded = data,
                                 ![r].data = AppendComment(data, new_comment)]
    /\ UNCHANGED <<file, start>>

\* save_comments: open(COMMENTS_FILE, "w")
SaveOpen(r) ==
    /\ reqs[r].pc = "save_open"
    /\ file' = OpenForWrite(file)
    /\ Goto(r, "save_write")

\* save_comments: json.dump(data, f, indent=2), then the 201 response.
SaveWrite(r) ==
    /\ reqs[r].pc = "save_write"
    /\ file' = WriteAt0(file, Dump(reqs[r].data))
    /\ Respond(r, 201, SuccessBody(NewComment(reqs[r].name, reqs[r].comment_text)))

\* The store steps of a request that is under way.
StoreStep(r) ==
    \/ EnsureExists(r)
    \/ EnsureCreateOpen(r)
    \/ EnsureCreateWrite(r)
    \/ EnsureRead(r)
    \/ EnsureResetOpen(r)
    \/ EnsureResetWrite(r)
    \/ LoadRead(r)
    \/ SaveOpen(r)
    \/ SaveWrite(r)

\* ------------------------------------------------------------ inputs
RECURSIVE SeqsOfLen(_, _)
SeqsOfLen(S, n) ==
    IF n = 0 THEN {<<>>}
    ELSE {Append(q, x) : q \in SeqsOfLen(S, n - 1), x \in S}

SeqsUpTo(S, n) == UNION {SeqsOfLen(S, k) : k \in 0..n}

Obj1(k1, v1) == Dict(<<KV(k1, v1)>>)
Obj2(k1, v1, k2, v2) == Dict(<<KV(k1, v1), KV(k2, v2)>>)

\* Comments the file may hold at the start.
StoredComments ==
    {NewComment(Str("Ann"), Str("hi")), NewComment(Str("Bob"), Str("yo"))}

\* Well-shaped documents: "comments" bound to a sequence of comments, with or
\* without another key beside it.
WellShapedDocs ==
    {Obj1("comments", List(S)) : S \in SeqsUpTo(StoredComments, MaxStored)}
    \cup {Obj2("title", Str("fans"), "comments", List(S)) :
            S \in SeqsUpTo(StoredComments, MaxStored)}

\* Texts json.load rejects: an empty file, a truncated value, data after the value.
CorruptTexts ==
    {<<>>, <<Tok("{")>>, <<Tok("{"), StrTok("comments"), Tok(":"), Tok("[")>>,
     Dump(EmptyDoc) \o <<Tok("}")>>}

\* Valid JSON that is no mapping, or a mapping without "comments".
MisshapenDocs ==
    {List(<<>>), List(<<NewComment(Str("Ann"), Str("hi"))>>), Num(3), Str("x"),
     None, Bool(TRUE), Dict(<<>>), Obj1("title", Str("fans"))}

\* Mappings whose "comments" is no sequence.
BadCommentsDocs ==
    {Obj1("comments", None), Obj1("comments", Num(3)), Obj1("comments", Str("x")),
     Obj1("comments", Dict(<<>>)), Obj1("comments", Obj1("name", Str("Ann")))}

StartFiles ==
    {AbsentFile}
    \cup {FileOf(t) : t \in CorruptTexts}
    \cup {FileOf(Dump(d)) : d \in WellShapedDocs \cup MisshapenDocs \cup BadCommentsDocs}

\* Request bodies of POST /api/add_comment.
Bodies ==
    {<<>>,
     Dump(List(<<Num(1)>>)),
     Dump(Obj1("name", Str("Cy"))),
     Dump(Obj2("name", Str("Cy"), "comment", Str("ok"))),
     Dump(Obj2("username", Str("Di"), "text", Str("wow"))),
     Dump(Obj2("name", Num(7), "comment", Bool(TRUE))),
     Dump(Obj2("author", List(<<Str("x")>>), "body", Obj1("k", Str("v"))))}

\* ------------------------------------------------------------ specification
Init ==
    /\ file \in StartFiles
    /\ reqs = [r \in Reqs |-> IdleReq]
    /\ start = file

\* GET /api/comments arrives.
ListComments(r) == Turn(r) /\ BeginList(r)

\* POST /api/add_comment arrives.
AddComment(r) == Turn(r) /\ \E body \in Bodies : BeginAdd(r, body)

Next == \E r \in Reqs : ListComments(r) \/ AddComment(r) \/ StoreStep(r)

Spec == Init /\ [][Next]_vars

\* ------------------------------------------- alias resolution, one request
AliasOrder == <<"name", "username", "author", "comment", "text", "body">>

\* The values a field takes: missing, empty, or a string of its own; the two
\* leading fields also null, 0 and a list.
FieldChoices(k) ==
    {"missing", "empty", "set"}
    \cup (IF k \in {"name", "comment"} THEN {"null", "zero", "list"} ELSE {})

FieldValue(k, c) ==
    CASE c = "empty" -> Str("")
      [] c = "null" -> None
      [] c = "zero" -> Num(0)
      [] c = "list" -> List(<<Str("x")>>)
      [] c = "set" -> Str("is-" \o k)

RECURSIVE ObjectsOver(_)
\* Every object over the first n alias fields, keys in AliasOrder.
ObjectsOver(n) ==
    IF n = 0 THEN {<<>>}
    ELSE LET k == AliasOrder[n] IN
         {IF c = "missing" THEN ps ELSE Append(ps, KV(k, FieldValue(k, c))) :
            ps \in ObjectsOver(n - 1), c \in FieldChoices(k)}

\* Bodies that are no object, or do not parse.
OtherBodies ==
    {<<>>, <<Tok("{")>>}
    \cup {Dump(v) : v \in {None, Bool(FALSE), Bool(TRUE), Num(0), Num(5), Str(""),
                          Str("abc"), List(<<>>), List(<<Num(1)>>)}}

AliasBodies == {Dump(Dict(ps)) : ps \in ObjectsOver(Len(AliasOrder))} \cup OtherBodies

AliasFiles ==
    {AbsentFile, FileOf(<<>>), FileOf(Dump(EmptyDoc)),
     FileOf(Dump(Obj1("comments", List(<<NewComment(Str("Ann"), Str("hi"))>>))))}

InitAlias ==
    /\ file \in AliasFiles
    /\ reqs = [r \in Reqs |-> IdleReq]
    /\ start = file

\* The first request is a POST with any of the alias bodies.
AddAliased(r) == r = 1 /\ Turn(r) /\ \E body \in AliasBodies : BeginAdd(r, body)

NextAlias == \E r \in Reqs : AddAliased(r) \/ ListComments(r) \/ StoreStep(r)

SpecAlias == InitAlias /\ [][NextAlias]_vars

\* ------------------------------------------------- failing file operations
\* One file operation of a request may fail with an I/O error.
MayFail(r) == ~reqs[r].ioerr

\* open(COMMENTS_FILE, "w") raises OSError: nothing is caught on the way to
\* the handler's except branch (in ensure_comments_file the open of the reset
\* is itself inside the except clause).
FailOpenWrite(r) ==
    /\ MayFail(r)
    /\ reqs[r].pc \in {"ensure_create", "ensure_reset", "save_open"}
    /\ reqs' = [reqs EXCEPT ![r].pc = "done", ![r].status = 500, ![r].ioerr = TRUE,
                            ![r].body = ServerError(reqs[r].op, "OSError")]
    /\ UNCHANGED <<file, start>>

\* The text being written by the step at pc.
Pending(r) ==
    IF reqs[r].pc = "save_write" THEN Dump(reqs[r].data) ELSE Dump(EmptyDoc)

\* The write raises OSError (disk full, quota) after k tokens reached the
\* file, which open had truncated.
FailWrite(r) ==
    /\ MayFail(r)
    /\ reqs[r].pc \in {"ensure_create_write", "ensure_reset_write", "save_write"}
    /\ \E k \in 0..(Len(Pending(r)) - 1) :
          file' = WriteAt0(file, SubSeq(Pending(r), 1, k))
    /\ reqs' = [reqs EXCEPT ![r].pc = "done", ![r].status = 500, ![r].ioerr = TRUE,
                            ![r].body = ServerError(reqs[r].op, "OSError")]
    /\ UNCHANGED start

\* ensure_comments_file: the read raises OSError, which the except clause
\* takes like a JSONDecodeError.
FailEnsureRead(r) ==
    /\ MayFail(r)
    /\ reqs[r].pc = "ensure_read"
    /\ reqs' = [reqs EXCEPT ![r].pc = "ensure_reset", ![r].ioerr = TRUE]
    /\ UNCHANGED <<file, start>>

\* load_comments: the read raises OSError.
FailLoadRead(r) ==
    /\ MayFail(r)
    /\ reqs[r].pc = "load_read"
    /\ reqs' = [reqs EXCEPT ![r].pc = "done", ![r].status = 500, ![r].ioerr = TRUE,
                            ![r].body = ServerError(reqs[r].op, "OSError")]
    /\ UNCHANGED <<file, start>>

IOBodies ==
    {<<>>, Dump(Obj2("name", Str("Cy"), "comment", Str("ok")))}

IOFiles ==
    {AbsentFile, FileOf(<<>>), FileOf(Dump(EmptyDoc)),
     FileOf(Dump(Obj1("comments", List(<<NewComment(Str("Ann"), Str("hi"))>>))))}

InitIO ==
    /\ file \in IOFiles
    /\ reqs = [r \in Reqs |-> IdleReq]
    /\ start = file

AddCommentIO(r) == Turn(r) /\ \E body \in IOBodies : BeginAdd(r, body)

NextIO ==
    \E r \in Reqs :
        \/ ListComments(r)
        \/ AddCommentIO(r)
        \/ StoreStep(r)
        \/ FailOpenWrite(r)
        \/ FailWrite(r)
        \/ FailEnsureRead(r)
        \/ FailLoadRead(r)

SpecIO == InitIO /\ [][NextIO]_vars

\* ------------------------------------------------- two interleaved requests
BodyA == Dump(Obj2("name", Str("Al"), "comment", Str("a")))
BodyB == Dump(Obj2("name", Str("Bo"), "comment", Str("b")))

ConcFiles ==
    {AbsentFile}
    \cup {FileOf(Dump(Obj1("comments", List(S)))) :
            S \in SeqsUpTo(StoredComments, MaxStored)}

InitConc ==
    /\ file \in ConcFiles
    /\ reqs = [r \in Reqs |-> IdleReq]
    /\ start = file

\* Requests 1 and 2 arrive at any time, each served by its own thread.
AddConcurrent(r) ==
    /\ r \in {1, 2}
    /\ reqs[r].pc = "idle"
    /\ BeginAdd(r, IF r = 1 THEN BodyA ELSE BodyB)

NextConc == \E r \in Reqs : AddConcurrent(r) \/ StoreStep(r)

SpecConc == InitConc /\ [][NextConc]_vars

\* ================================================================ claims
\* What the claims speak of, read off the state.
Done(r) == reqs[r].pc = "done"

\* No request after r has arrived: the file is as r left it.
Latest(r) == \A q \in Reqs : q > r => reqs[q].pc = "idle"

\* The file holds a well-shaped document: a mapping with "comments" bound to
\* a sequence.
WellShaped(f) ==
    /\ f.exists
    /\ Loads(f.text).ok
    /\ IsDict(Loads(f.text).v)
    /\ IsList(Get(Loads(f.text).v, "comments"))

\* The comment sequence a file holds (none for an absent file).
CommentsIn(f) == IF f.exists THEN Get(Loads(f.text).v, "comments").items ELSE <<>>

AbsentOrWellShaped(f) == ~f.exists \/ WellShaped(f)

NonEmptyStr(v) == IsStr(v) /\ v.s # ""

\* A POST whose resolved name and text are non-empty strings.
ValidAdd(r) ==
    /\ reqs[r].op = "add"
    /\ IsDict(reqs[r].payload)
    /\ NonEmptyStr(ResolveName(reqs[r].payload))
    /\ NonEmptyStr(ResolveText(reqs[r].payload))

\* The comment such a POST is to store.
ExpectedComment(r) ==
    Dict(<<KV("name", ResolveName(reqs[r].payload)),
           KV("comment", ResolveText(reqs[r].payload))>>)

\* C1: a POST with non-empty string name and text, on an absent or
\* well-shaped file holding S, answers 201, and the GET that follows answers
\* 200 with the comments S followed by the one new comment.
C1_AddThenList ==
    \A r \in Reqs :
        (ValidAdd(r) /\ AbsentOrWellShaped(reqs[r].before) /\ Done(r)) =>
            /\ reqs[r].status = 201
            /\ \A q \in Reqs :
                 (q = r + 1 /\ reqs[q].op = "get" /\ Done(q)) =>
                     /\ reqs[q].status = 200
                     /\ IsDict(reqs[q].body)
                     /\ Get(reqs[q].body, "comments")
                          = List(Append(CommentsIn(reqs[r].before), ExpectedComment(r)))

C1_Witness ==
    /\ ValidAdd(1) /\ Done(1) /\ reqs[1].status = 201
    /\ WellShaped(reqs[1].before)
    /\ Len(CommentsIn(reqs[1].before)) = MaxStored
    /\ reqs[2].op = "get" /\ Done(2) /\ reqs[2].status = 200

\* C7: save_comments(d) followed by load_comments() returns d: what a request
\* loads is the document the POST before it saved, field for field and in
\* the same order.
C7_SaveLoadRoundTrip ==
    \A r \in Reqs : \A q \in Reqs :
        (q = r + 1 /\ reqs[r].op = "add" /\ Done(r) /\ reqs[r].status = 201
           /\ reqs[q].loaded # None) =>
            reqs[q].loaded = reqs[r].data

C7_Witness ==
    /\ Done(1) /\ reqs[1].status = 201
    /\ HasKey(reqs[1].data, "title")
    /\ Len(Get(reqs[1].data, "comments").items) > MaxStored
    /\ reqs[2].loaded # None

\* The text of {"comments": []}.
EmptyDocText ==
    <<Tok("{"), StrTok("comments"), Tok(":"), Tok("["), Tok("]"), Tok("}")>>

\* C8: a GET on a fresh store (no file) answers 200 with {"comments": []},
\* and the file then exists and holds {"comments": []}.
C8_FreshList ==
    \A r \in Reqs :
        (reqs[r].op = "get" /\ ~reqs[r].before.exists /\ Done(r)) =>
            /\ reqs[r].status = 200
            /\ reqs[r].body = Obj1("comments", List(<<>>))
            /\ Latest(r) => file = FileOf(EmptyDocText)

C8_Witness ==
    reqs[1].op = "get" /\ ~reqs[1].before.exists /\ Done(1) /\ file.exists

\* ------------------------------------------------------------------ C3
\* The value of the first of three keys that holds a truthy value (the last
\* key's value when none does).
FirstTruthy(p, k1, k2, k3) ==
    IF Truthy(Get(p, k1)) THEN Get(p, k1)
    ELSE IF Truthy(Get(p, k2)) THEN Get(p, k2)
    ELSE Get(p, k3)

\* The value of the first of three keys that is present.
FirstPresent(p, k1, k2, k3) ==
    IF HasKey(p, k1) THEN Get(p, k1)
    ELSE IF HasKey(p, k2) THEN Get(p, k2)
    ELSE Get(p, k3)

\* Request r resolved name n and text t, validated them and acted on them.
AliasOutcome(r, n, t) ==
    IF Truthy(n) /\ Truthy(t)
    THEN /\ reqs[r].status = 201
         /\ reqs[r].body = SuccessBody(Dict(<<KV("name", n), KV("comment", t)>>))
         /\ Latest(r) =>
              /\ WellShaped(file)
              /\ CommentsIn(file)[Len(CommentsIn(file))]
                   = Dict(<<KV("name", n), KV("comment", t)>>)
    ELSE /\ reqs[r].status = 400
         /\ Latest(r) => file = reqs[r].before

ObjectAdd(r) == reqs[r].op = "add" /\ IsDict(reqs[r].payload) /\ Done(r)

\* C3, as amended: the resolved name is the value of the first of name,
\* username, author that holds a truthy (non-empty) value, the resolved text
\* that of the first such of comment, text, body; the request is accepted and
\* stores {name, comment} when both exist and is refused with 400 otherwise.
\* An empty earlier alias is passed over in favour of a later non-empty one.
C3_FirstTruthyAlias ==
    \A r \in Reqs :
        ObjectAdd(r) =>
            AliasOutcome(r, FirstTruthy(reqs[r].payload, "name", "username", "author"),
                            FirstTruthy(reqs[r].payload, "comment", "text", "body"))

\* C3, as stated: the first PRESENT alias decides, and an empty one is not
\* rescued by a later alias.
C3_FirstPresentAlias ==
    \A r \in Reqs :
        ObjectAdd(r) =>
            AliasOutcome(r, FirstPresent(reqs[r].payload, "name", "username", "author"),
                            FirstPresent(reqs[r].payload, "comment", "text", "body"))

C3_Witness ==
    /\ ObjectAdd(1) /\ reqs[1].status = 201
    /\ Get(reqs[1].payload, "name") = Str("")
    /\ ~HasKey(reqs[1].payload, "comment")
    /\ WellShaped(file)
    /\ CommentsIn(file)[Len(CommentsIn(file))]
         = Dict(<<KV("name", Str("is-username")), KV("comment", Str("is-text"))>>)

\* ------------------------------------------------------------------ C2
\* Some alias of the name and some alias of the text hold a non-empty value.
Resolvable(p) ==
    /\ IsDict(p)
    /\ \E k \in {"name", "username", "author"} : Truthy(Get(p, k))
    /\ \E k \in {"comment", "text", "body"} : Truthy(Get(p, k))

\* C2: a POST whose body yields no non-empty name or no non-empty text
\* (unparsable, empty, no object, or an object without them) answers 400 and
\* leaves the file as it was.
C2_Unresolvable400 ==
    \A r \in Reqs :
        (reqs[r].op = "add" /\ Done(r) /\ ~Resolvable(reqs[r].payload)) =>
            /\ reqs[r].status = 400
            /\ Latest(r) => file = reqs[r].before

\* ------------------------------------------------------------------ C4
\* A POST whose resolved name and text are truthy.
AcceptableAdd(r) ==
    /\ reqs[r].op = "add"
    /\ IsDict(reqs[r].payload)
    /\ Truthy(ResolveName(reqs[r].payload))
    /\ Truthy(ResolveText(reqs[r].payload))

\* C4: on a file that holds invalid JSON or JSON of the wrong shape, a GET
\* answers 200 with {"comments": []} and an acceptable POST answers 201 and
\* leaves {"comments": [new comment]}; neither answers 500.
C4_MisshapenFileHeals ==
    \A r \in Reqs :
        (Done(r) /\ reqs[r].before.exists /\ ~WellShaped(reqs[r].before)) =>
            /\ reqs[r].op = "get" =>
                 /\ reqs[r].status = 200
                 /\ reqs[r].body = Obj1("comments", List(<<>>))
            /\ AcceptableAdd(r) =>
                 /\ reqs[r].status = 201
                 /\ Latest(r) =>
                      Loads(file.text) =
                        [ok |-> TRUE,
                         v |-> Obj1("comments",
                                    List(<<NewComment(ResolveName(reqs[r].payload),
                                                      ResolveText(reqs[r].payload))>>))]

\* ------------------------------------------------------------------ C5
IsDocument(d) == IsDict(d) /\ HasKey(d, "comments") /\ IsList(Get(d, "comments"))

\* C5: whatever the file holds, the value load_comments returns, and so the
\* body of every 200 answer of GET, is a mapping with "comments" bound to a
\* sequence.
C5_LoadedIsDocument ==
    \A r \in Reqs :
        /\ reqs[r].loaded # None => IsDocument(reqs[r].loaded)
        /\ (reqs[r].op = "get" /\ Done(r) /\ reqs[r].status = 200) =>
               IsDocument(reqs[r].body)

\* ------------------------------------------------------------------ C10
ProperComment(c) ==
    /\ IsDict(c)
    /\ Len(c.items) = 2
    /\ NonEmptyStr(Get(c, "name"))
    /\ NonEmptyStr(Get(c, "comment"))

IsPrefix(a, b) == Len(a) <= Len(b) /\ SubSeq(b, 1, Len(a)) = a

\* C10: from an absent file or a well-shaped document of proper comments,
\* after any requests every stored comment is a mapping of exactly name and
\* comment, each a non-empty string, and the comments a request found are
\* still there, unchanged, after it.
C10_CommentShape ==
    AbsentOrWellShaped(start) =>
        \A r \in Reqs :
            (Done(r) /\ Latest(r)) =>
                /\ AbsentOrWellShaped(file)
                /\ \A i \in 1..Len(CommentsIn(file)) : ProperComment(CommentsIn(file)[i])
                /\ IsPrefix(CommentsIn(reqs[r].before), CommentsIn(file))

\* ------------------------------------------------------------------ C6
\* C6: a POST that passed validation and met an I/O error in the store
\* answers 500 with a detail string and leaves the file exactly as it was,
\* so that the GET after it lists the comments that were there before.
C6_FailedAddLeavesFile ==
    \A r \in Reqs :
        (reqs[r].op = "add" /\ reqs[r].ioerr /\ Done(r) /\ WellShaped(reqs[r].before)) =>
            /\ reqs[r].status = 500
            /\ HasKey(reqs[r].body, "detail")
            /\ Latest(r) => file = reqs[r].before
            /\ \A q \in Reqs :
                 (q = r + 1 /\ reqs[q].op = "get" /\ Done(q) /\ ~reqs[q].ioerr) =>
                     /\ reqs[q].status = 200
                     /\ reqs[q].body = Loads(reqs[r].before.text).v

\* ------------------------------------------------------------------ C9
CommentA == NewComment(Str("Al"), Str("a"))
CommentB == NewComment(Str("Bo"), Str("b"))

\* C9: two valid POSTs interleaved on a well-shaped file holding S both
\* answer 201, the file ends as the document one of them saved, and its
\* comments are S+[a], S+[b], S+[a,b] or S+[b,a]: nothing of S is lost.
C9_LastWriteWins ==
    (WellShaped(start) /\ Done(1) /\ Done(2)) =>
        /\ reqs[1].status = 201
        /\ reqs[2].status = 201
        /\ file.text \in {Dump(reqs[1].data), Dump(reqs[2].data)}
        /\ WellShaped(file)
        /\ CommentsIn(file) \in
             {CommentsIn(start) \o tl :
                tl \in {<<CommentA>>, <<CommentB>>, <<CommentA, CommentB>>,
                        <<CommentB, CommentA>>}}

====
